---------------------------- MODULE Spec2Model ----------------------------
(***************************************************************************)
(* Model of pystav/gmmmap.py: GMMMap.__init__ (joint-model splitter),      *)
(* TrajectoryGMMMap.__init__, __construct_weight_matrix, convert,          *)
(* convert_with_gv and __gv_grad.                                          *)
(*                                                                         *)
(* Numbers are exact rationals <<n, d>> (d > 0, lowest terms); matrices    *)
(* are sequences of rows.  Python indices are 0-based, sequences here are  *)
(* 1-based: frame t of the code is row/column block t + 1.                 *)
(***************************************************************************)
EXTENDS Integers, Sequences, FiniteSets, TLC

\* ------------------------------------------------------------------ bounds
\* longest sequence (number of frames T) a caller passes
MaxT == 3
\* largest feature order D the operator builder is exercised with
MaxD == 3
\* largest epoches value passed to convert_with_gv
MaxEpochs == 2

\* ------------------------------------------------------- exact arithmetic
Abs(a) == IF a < 0 THEN -a ELSE a

RECURSIVE GCD(_, _)
GCD(a, b) == IF b = 0 THEN a ELSE GCD(b, a % b)

\* the rational n/d in lowest terms with a positive denominator
Rat(n, d) ==
    LET g == GCD(Abs(n), Abs(d))
        s == IF d < 0 THEN -1 ELSE 1
    IN  << (s * n) \div g, (s * d) \div g >>

R0 == << 0, 1 >>
R1 == << 1, 1 >>
RInt(n) == << n, 1 >>
RNeg(a) == << -a[1], a[2] >>

\* a + b over the least common denominator
RAdd(a, b) ==
    IF a[1] = 0 THEN b
    ELSE IF b[1] = 0 THEN a
    ELSE IF a[2] = 1 /\ b[2] = 1 THEN << a[1] + b[1], 1 >>
    ELSE LET g == GCD(a[2], b[2])
         IN  Rat(a[1] * (b[2] \div g) + b[1] * (a[2] \div g),
                 (a[2] \div g) * b[2])

RSub(a, b) == RAdd(a, RNeg(b))

\* a * b, cancelling across before multiplying
RMul(a, b) ==
    IF a[1] = 0 \/ b[1] = 0 THEN R0
    ELSE IF a[2] = 1 /\ b[2] = 1 THEN << a[1] * b[1], 1 >>
    ELSE LET g1 == GCD(Abs(a[1]), b[2])
             g2 == GCD(Abs(b[1]), a[2])
         IN  << (a[1] \div g1) * (b[1] \div g2),
                (a[2] \div g2) * (b[2] \div g1) >>

RDiv(a, b) ==
    IF b[1] < 0 THEN RMul(a, << -b[2], -b[1] >>) ELSE RMul(a, << b[2], b[1] >>)

\* ------------------------------------------------------ vectors, matrices
\* the array f[1], .., f[n], with every element computed once
Tup(f, n) == SubSeq(f, 1, n)

RECURSIVE RSum(_, _)
\* sum of f[1] .. f[n]
RSum(f, n) == IF n = 0 THEN R0 ELSE RAdd(RSum(f, n - 1), f[n])

NRows(M) == Len(M)
NCols(M) == Len(M[1])
Zeros(r, c) == Tup([i \in 1..r |-> Tup([j \in 1..c |-> R0], c)], r)
Dot(u, v) == RSum(Tup([i \in 1..Len(u) |-> RMul(u[i], v[i])], Len(u)), Len(u))
MatVec(M, v) == Tup([i \in 1..NRows(M) |-> Dot(M[i], v)], NRows(M))
Transpose(M) == Tup([j \in 1..NCols(M) |-> Tup([i \in 1..NRows(M) |-> M[i][j]], NRows(M))], NCols(M))
MatMul(A, B) ==
    Tup([i \in 1..NRows(A) |->
        Tup([j \in 1..NCols(B) |->
            RSum(Tup([k \in 1..NCols(A) |-> RMul(A[i][k], B[k][j])], NCols(A)), NCols(A))], NCols(B))], NRows(A))
MatSub(A, B) == Tup([i \in 1..NRows(A) |-> Tup([j \in 1..NCols(A) |-> RSub(A[i][j], B[i][j])], NCols(A))], NRows(A))
VAdd(u, v) == Tup([i \in 1..Len(u) |-> RAdd(u[i], v[i])], Len(u))
VSub(u, v) == Tup([i \in 1..Len(u) |-> RSub(u[i], v[i])], Len(u))
VMul(u, v) == Tup([i \in 1..Len(u) |-> RMul(u[i], v[i])], Len(u))
VScale(c, v) == Tup([i \in 1..Len(v) |-> RMul(c, v[i])], Len(v))
VNeg(v) == Tup([i \in 1..Len(v) |-> RNeg(v[i])], Len(v))

\* M without row r and column c
Minor(M, r, c) ==
    Tup([i \in 1..(NRows(M) - 1) |->
        Tup([j \in 1..(NCols(M) - 1) |->
            M[IF i < r THEN i ELSE i + 1][IF j < c THEN j ELSE j + 1]], (NCols(M) - 1))], (NRows(M) - 1))

RECURSIVE Det(_)
Det(M) ==
    IF NRows(M) = 1 THEN M[1][1]
    ELSE RSum(Tup([j \in 1..NCols(M) |->
                  RMul(IF j % 2 = 1 THEN M[1][j] ELSE RNeg(M[1][j]),
                       Det(Minor(M, 1, j)))], NCols(M)), NCols(M))

\* numpy.linalg.inv on a non-singular matrix (exact)
Inv(M) ==
    LET d == Det(M)
        n == NRows(M)
    IN  IF n = 1 THEN << << RDiv(R1, d) >> >>
        ELSE Tup([i \in 1..n |->
                Tup([j \in 1..n |->
                    RDiv(IF (i + j) % 2 = 0 THEN Det(Minor(M, j, i))
                                            ELSE RNeg(Det(Minor(M, j, i))), d)], n)], n)

\* numpy.linalg.solve(A, B) with a matrix / a vector right-hand side (exact)
Solve(A, B) == MatMul(Inv(A), B)
SolveVec(A, b) == MatVec(Inv(A), b)


\* ---------------------------------------------------------------- state
VARIABLES
    phase,   \* "new" before construction, "ready" after, "failed" if __init__ raised
    split,   \* src_means, tgt_means, covarXX, covarXY, covarYX, covarYY
    selfT,   \* self.T
    W,       \* self.W: [fmt, m]; fmt "none" while the attribute does not exist
    selfD,   \* self.D
    selfE,   \* self.E
    gvm,     \* gv_mean, gv_covar, Pv ([has |-> FALSE] when gv was None)
    pc,      \* the sequential caller: "idle", "gv_loop" or "returned"
    call,    \* the call in progress or just finished, with its outcome
    y,       \* local y of convert_with_gv
    i,       \* loop counter of convert_with_gv
    tpc,     \* per activation of the builder / per concurrent caller: position
    tT,      \* per activation: T
    tD,      \* per activation: D
    tt,      \* per activation: loop variable t of __construct_weight_matrix
    tSeen    \* per concurrent caller: the self.W it read for the solve

vars == << phase, split, selfT, W, selfD, selfE, gvm, pc, call, y, i,
           tpc, tT, tD, tt, tSeen >>

seqVars == << pc, call, y, i >>
thrVars == << tpc, tT, tD, tt, tSeen >>
objVars == << phase, split, selfT, selfD, selfE, gvm >>

\* -------------------------------------- __construct_weight_matrix (190-219)
NoW == [fmt |-> "none", m |-> << >>]

\* scipy.sparse.diags(v, 0)
Diags(v) == Tup([r \in 1..Len(v) |-> Tup([c \in 1..Len(v) |-> IF r = c THEN v[r] ELSE R0], Len(v))], Len(v))

\* M[0:, c0:c0 + cols(B)] = B
SetCols(M, c0, B) ==
    Tup([r \in 1..NRows(M) |->
        Tup([c \in 1..NCols(M) |->
            IF c > c0 /\ c <= c0 + NCols(B) THEN B[r][c - c0] ELSE M[r][c]], NCols(M))], NRows(M))

\* np.zeros(D) followed by tmp.fill(v)
Filled(D, v) == Tup([k \in 1..D |-> v], D)

\* w0 after line 196
w0(t, T, D) == SetCols(Zeros(D, D * T), t * D, Diags(Filled(D, R1)))

\* a faulty delta block (the signs of the two neighbours exchanged), against
\* which C2 is tested
w1_bad(t, T, D) ==
    LET a == Zeros(D, D * T)
        b == IF t - 1 >= 0
             THEN SetCols(a, (t - 1) * D, Diags(Filled(D, Rat(1, 2))))
             ELSE a
    IN  IF t + 1 < T
        THEN SetCols(b, (t + 1) * D, Diags(Filled(D, Rat(-1, 2))))
        ELSE b

\* w1 after lines 198-205
w1(t, T, D) ==
    LET a == Zeros(D, D * T)
        b == IF t - 1 >= 0
             THEN SetCols(a, (t - 1) * D, Diags(Filled(D, Rat(-1, 2))))
             ELSE a
    IN  IF t + 1 < T
        THEN SetCols(b, (t + 1) * D, Diags(Filled(D, Rat(1, 2))))
        ELSE b

\* W_t = scipy.sparse.vstack([w0, w1])  (line 207)
W_t(t, T, D) == w0(t, T, D) \o w1(t, T, D)

\* lines 212-215: the value assigned to self.W in iteration t, given the
\* self.W read; vstack of blocks with different column counts raises
StackStep(cur, t, T, D) ==
    IF t = 0 THEN [fmt |-> "coo", m |-> W_t(t, T, D)]
    ELSE IF cur.fmt = "none" \/ NCols(cur.m) # D * T
         THEN [fmt |-> "ValueError", m |-> cur.m]
         ELSE [fmt |-> "coo", m |-> cur.m \o W_t(t, T, D)]

RECURSIVE BuildLoop(_, _, _, _)
\* the loop of lines 193-215 from iteration t on
BuildLoop(cur, t, T, D) ==
    IF t >= T THEN cur ELSE BuildLoop(StackStep(cur, t, T, D), t + 1, T, D)

\* line 217
ToCsr(cur) == [fmt |-> "csr", m |-> cur.m]

\* line 219
ShapeOk(cur, T, D) == NRows(cur.m) = 2 * D * T /\ NCols(cur.m) = D * T

\* the whole method, called with no other caller active (T >= 1)
construct_weight_matrix(cur, T, D) == ToCsr(BuildLoop(cur, 0, T, D))

\* ------------------------------------------- builder activations (threads)
NumThreads == 2
Threads == 1..NumThreads

\* __construct_weight_matrix is entered with (T, D)
BuildEnter(th, T, D) ==
    /\ tpc[th] \in {"idle", "built"}
    /\ tpc' = [tpc EXCEPT ![th] = "loop"]
    /\ tT' = [tT EXCEPT ![th] = T]
    /\ tD' = [tD EXCEPT ![th] = D]
    /\ tt' = [tt EXCEPT ![th] = 0]
    /\ UNCHANGED << W, tSeen >>

\* one iteration of the loop: lines 194-215
BuildIter(th) ==
    /\ tpc[th] = "loop"
    /\ tt[th] < tT[th]
    /\ LET nw == StackStep(W, tt[th], tT[th], tD[th])
       IN  IF nw.fmt = "ValueError"
           THEN /\ tpc' = [tpc EXCEPT ![th] = "ValueError"]
                /\ UNCHANGED << W, tt >>
           ELSE /\ W' = nw
                /\ tt' = [tt EXCEPT ![th] = tt[th] + 1]
                /\ UNCHANGED tpc
    /\ UNCHANGED << tT, tD, tSeen >>

\* lines 217-219: conversion to csr and the shape assertion
BuildFinish(th) ==
    /\ tpc[th] = "loop"
    /\ tt[th] = tT[th]
    /\ W' = ToCsr(W)
    /\ tpc' = [tpc EXCEPT ![th] =
                  IF ShapeOk(W, tT[th], tD[th]) THEN "built" ELSE "AssertionError"]
    /\ UNCHANGED << tT, tD, tt, tSeen >>

\* ---------------------- specification of the operator builder on its own
InitThreads ==
    /\ tpc = [th \in Threads |-> "idle"]
    /\ tT = [th \in Threads |-> 0]
    /\ tD = [th \in Threads |-> 0]
    /\ tt = [th \in Threads |-> 0]
    /\ tSeen = [th \in Threads |-> NoW]

InitSeq ==
    /\ pc = "idle"
    /\ call = [op |-> "none"]
    /\ y = << >>
    /\ i = 0

Init ==
    /\ phase = "new"
    /\ split = << >>
    /\ selfT = 0
    /\ W = NoW
    /\ selfD = << >>
    /\ selfE = << >>
    /\ gvm = [has |-> FALSE]
    /\ InitSeq
    /\ InitThreads

NextW ==
    \/ \E T \in 1..MaxT, D \in 1..MaxD :
          BuildEnter(1, T, D) /\ UNCHANGED << objVars, seqVars >>
    \/ BuildIter(1) /\ UNCHANGED << objVars, seqVars >>
    \/ BuildFinish(1) /\ UNCHANGED << objVars, seqVars >>

SpecW == Init /\ [][NextW]_vars

\* C2: the operator built by __construct_weight_matrix(T, D) has shape
\* (2*D*T, D*T); in row-block t the static rows are the identity at column
\* block t and zero elsewhere, the delta rows are -1/2 * I at column block
\* t - 1 (when t - 1 >= 0), +1/2 * I at column block t + 1 (when t + 1 < T)
\* and zero elsewhere.  Rows and columns are counted from 0 as in the code.
WEntry(r, c, T, D) ==
    LET t  == r \div (2 * D)          \* frame of the row
        k  == r % (2 * D)             \* row inside the frame's block
        cb == c \div D                \* column block
        cd == c % D
    IN  IF k < D
        THEN IF cb = t /\ cd = k THEN R1 ELSE R0
        ELSE IF cd # k - D THEN R0
             ELSE IF cb = t - 1 THEN << -1, 2 >>
             ELSE IF cb = t + 1 THEN << 1, 2 >>
             ELSE R0

C2_OperatorStructure ==
    tpc[1] = "built" =>
        /\ W.fmt = "csr"
        /\ NRows(W.m) = 2 * tD[1] * tT[1]
        /\ \A r \in 1..NRows(W.m) :
              /\ Len(W.m[r]) = tD[1] * tT[1]
              /\ \A c \in 1..(tD[1] * tT[1]) :
                    W.m[r][c] = WEntry(r - 1, c - 1, tT[1], tD[1])

\* the case T = 3, D = 2 has been built: shape (12, 6)
C2_Witness ==
    /\ tpc[1] = "built" /\ tT[1] = 3 /\ tD[1] = 2
    /\ NRows(W.m) = 12 /\ NCols(W.m) = 6
    /\ W.m[3][3] = << 1, 2 >> /\ W.m[11][3] = << -1, 2 >>


\* ----------------------------------------------------- the fitted models
RVec(v) == Tup([k \in 1..Len(v) |-> RInt(v[k])], Len(v))
RMat(M) == Tup([r \in 1..Len(M) |-> RVec(M[r])], Len(M))

\* gmm: K = 2 components over (src static, src delta, tgt static, tgt delta).
\* Both components have weight 1/2 and det(covarXX) = 1, so the weight and
\* log-determinant terms of the posterior are the same for both.
gmm ==
    [weights_ |-> << Rat(1, 2), Rat(1, 2) >>,
     means_   |-> << RVec(<< 0, 0, 1, 0 >>), RVec(<< 3, 1, 0, 2 >>) >>,
     covars_  |-> << RMat(<< << 1, 0, 1, 0 >>,
                             << 0, 1, 0, 1 >>,
                             << 1, 0, 2, 0 >>,
                             << 0, 1, 0, 2 >> >>),
                     RMat(<< << 2, 1, 1, 1 >>,
                             << 1, 1, 0, 1 >>,
                             << 1, 0, 3, 1 >>,
                             << 1, 1, 1, 2 >> >>) >>]

\* gv: the single-mixture model of the target global variance
gvModel ==
    [isNone |-> FALSE,
     means_ |-> << RVec(<< 1 >>) >>, covars_ |-> << RMat(<< << 2 >> >>) >>]

\* the default gv=None
NoneGv == [isNone |-> TRUE]

\* v[a:b] and M[a:b, c:d] (0-based, end exclusive)
Slice(v, a, b) == Tup([k \in 1..(b - a) |-> v[a + k]], (b - a))
Block(M, a, b, c, d) == Tup([r \in 1..(b - a) |-> Slice(M[a + r], c, d)], (b - a))

\* --------------------------------------------------- GMMMap.__init__ (80-111)
\* lines 86-91: the split at index D
SplitParams(g, D) ==
    LET K == Len(g.means_)
        n == Len(g.means_[1])
    IN  [src_means |-> Tup([m \in 1..K |-> Slice(g.means_[m], 0, D)], K),
         tgt_means |-> Tup([m \in 1..K |-> Slice(g.means_[m], D, n)], K),
         covarXX   |-> Tup([m \in 1..K |-> Block(g.covars_[m], 0, D, 0, D)], K),
         covarXY   |-> Tup([m \in 1..K |-> Block(g.covars_[m], 0, D, D, n)], K),
         covarYX   |-> Tup([m \in 1..K |-> Block(g.covars_[m], D, n, 0, D)], K),
         covarYY   |-> Tup([m \in 1..K |-> Block(g.covars_[m], D, n, D, n)], K)]

\* lines 103-104 (and 257-259): the residual covariance of component m
ResidualCov(sp, m) ==
    MatSub(sp.covarYY[m],
           MatMul(sp.covarYX[m], Solve(sp.covarXX[m], sp.covarXY[m])))

\* the whole constructor: line 97 reads self.XY, an attribute that no line
\* sets, so the swap branch raises AttributeError after lines 95-96
GMMMap_init(g, swap) ==
    LET D  == Len(g.means_[1]) \div 2
        sp == SplitParams(g, D)
    IN  IF swap
        THEN [status |-> "AttributeError"]
        ELSE [status |-> "ok",
              num_mixtures |-> Len(g.means_),
              split |-> sp,
              D |-> [fmt |-> "ndarray",
                     v |-> Tup([m \in 1..Len(g.means_) |-> ResidualCov(sp, m)], Len(g.means_))]]

\* ------------------------------------- TrajectoryGMMMap.__init__ (173-188)
\* line 178
DOrder == Len(gmm.means_[1]) \div 4

GvFields(gv) ==
    IF gv.isNone THEN [has |-> FALSE]
    ELSE [has |-> TRUE,
          gv_mean  |-> gv.means_[1],
          gv_covar |-> gv.covars_[1],
          Pv       |-> Inv(gv.covars_[1])]

Construct(T, gv, swap) ==
    /\ phase = "new"
    /\ LET base == GMMMap_init(gmm, swap)
       IN  IF base.status # "ok"
           THEN /\ phase' = "failed"
                /\ call' = [op |-> "init", swap |-> swap, out |-> base.status]
                /\ UNCHANGED << split, selfT, W, selfD, selfE, gvm >>
           ELSE /\ phase' = "ready"
                /\ split' = base.split
                /\ selfD' = base.D
                /\ selfT' = T
                /\ W' = construct_weight_matrix(W, T, DOrder)
                /\ gvm' = GvFields(gv)
                /\ call' = [op |-> "init", swap |-> swap, out |-> "ok"]
                /\ UNCHANGED selfE
    /\ UNCHANGED << pc, y, i, thrVars >>

\* ----------------------------------------- TrajectoryGMMMap.convert (221-268)
RLess(a, b) == a[1] * b[2] < b[1] * a[2]

\* the rank of component m for frame x under self.px: minus the Mahalanobis
\* distance (the remaining terms of the log posterior are equal, see gmm)
PxScore(sp, m, x) ==
    LET d == VSub(x, sp.src_means[m])
    IN  RNeg(Dot(d, SolveVec(sp.covarXX[m], d)))

\* self.px.predict(src): the first component of maximal posterior, per frame
Predict(sp, src) ==
    Tup([t \in 1..Len(src) |->
        LET K  == Len(sp.src_means)
            sc == Tup([m \in 1..K |-> PxScore(sp, m, src[t])], K)
        IN  CHOOSE m \in 1..K :
                /\ \A j \in 1..K : ~RLess(sc[m], sc[j])
                /\ \A j \in 1..(m - 1) : RLess(sc[j], sc[m])], Len(src))

RECURSIVE Flatten(_)
\* ndarray.flatten() of a two-dimensional array
Flatten(M) == IF M = << >> THEN << >> ELSE Head(M) \o Flatten(Tail(M))

\* ndarray.reshape((T, D)) of a flat vector
Reshape(v, T, D) == Tup([t \in 1..T |-> Tup([d \in 1..D |-> v[(t - 1) * D + d]], D)], T)

\* lines 245-251: mix is optimum_mix
LocalEstimate(sp, src, mix) ==
    Flatten(Tup([t \in 1..Len(src) |->
        VAdd(sp.tgt_means[mix[t]],
             MatVec(sp.covarYX[mix[t]],
                    SolveVec(sp.covarXX[mix[t]],
                             VSub(src[t], sp.src_means[mix[t]]))))], Len(src)))

\* scipy.sparse.block_diag of T square blocks of order n
BlockDiag(blocks, n) ==
    Tup([r \in 1..(Len(blocks) * n) |->
        Tup([c \in 1..(Len(blocks) * n) |->
            IF (r - 1) \div n = (c - 1) \div n
            THEN blocks[((r - 1) \div n) + 1][((r - 1) % n) + 1][((c - 1) % n) + 1]
            ELSE R0], (Len(blocks) * n))], (Len(blocks) * n))

\* lines 254-261: mix is optimum_mix
LocalPrecision(sp, mix, D) ==
    [fmt |-> "csr",
     m |-> BlockDiag(Tup([t \in 1..Len(mix) |-> Inv(ResidualCov(sp, mix[t]))],
                         Len(mix)), 2 * D)]

\* line 265
SystemMatrix(Wm, P) == MatMul(Transpose(Wm), MatMul(P, Wm))

\* a faulty right-hand side (the precision dropped), against which C7 is
\* tested
RhsNoPrecision(Wm, P, E) == MatVec(Transpose(Wm), E)

\* line 266, second argument of spsolve
Rhs(Wm, P, E) == MatVec(Transpose(Wm), MatVec(P, E))

\* lines 265-268 on the fields read: the products need rows(W) = order(D) =
\* len(E), and reshape((T, D)) needs D*T unknowns (ValueError otherwise)
Solve265(w, P, E, T, D) ==
    IF \/ w.fmt = "none"
       \/ NRows(w.m) # NRows(P.m)
       \/ Len(E) # NRows(P.m)
       \/ NCols(w.m) # D * T
    THEN [out |-> "ValueError", ret |-> << >>]
    ELSE [out |-> "ok",
          ret |-> Reshape(SolveVec(SystemMatrix(w.m, P.m), Rhs(w.m, P.m, E)),
                          T, D)]

\* the outcome of the handler in the instance state (t, w, sp), with no
\* other caller active: the fields it leaves and what it returns or raises
convert(t, w, sp, src) ==
    LET T  == Len(src)
        D  == Len(src[1]) \div 2
        w2 == IF T # t THEN construct_weight_matrix(w, T, D) ELSE w
        mx == Predict(sp, src)
        E  == LocalEstimate(sp, src, mx)
        P  == LocalPrecision(sp, mx, D)
        r  == Solve265(w2, P, E, T, D)
    IN  [out |-> r.out, W |-> w2, E |-> E, D |-> P,
         wshape |-> << NRows(w2.m), NCols(w2.m) >>, ret |-> r.ret]

\* the sequences a caller passes: frames (static, delta) of the source
Frames == { RVec(<< 1, 0 >>), RVec(<< 2, 1 >>) }
Inputs == UNION { [1..n -> Frames] : n \in 1..MaxT }

\* a caller's convert(src); r is what the handler does in the current state
Convert(src, r) ==
    /\ phase = "ready" /\ pc = "idle"
    /\ W' = r.W
    /\ selfE' = r.E
    /\ selfD' = r.D
    /\ call' = [op |-> "convert", X |-> src, out |-> r.out, ret |-> r.ret,
                wshape |-> r.wshape]
    /\ pc' = "returned"
    /\ UNCHANGED << phase, split, selfT, gvm, y, i, thrVars >>


\* ------------------------------------------------- __gv_grad (306-330)
\* np.mean(y, axis=0)
MeanAxis0(yy) ==
    Tup([d \in 1..Len(yy[1]) |->
        RDiv(RSum(Tup([t \in 1..Len(yy) |-> yy[t][d]], Len(yy)), Len(yy)), RInt(Len(yy)))], Len(yy[1]))

\* np.var(y, axis=0)
VarAxis0(yy) ==
    LET mu == MeanAxis0(yy)
    IN  Tup([d \in 1..Len(yy[1]) |->
            RDiv(RSum(Tup([t \in 1..Len(yy) |->
                          RMul(RSub(yy[t][d], mu[d]), RSub(yy[t][d], mu[d]))], Len(yy)),
                      Len(yy)),
                 RInt(Len(yy)))], Len(yy[1]))

gv_grad(g, yy) ==
    LET T      == Len(yy)
        gv     == VarAxis0(yy)
        y_mean == MeanAxis0(yy)
    IN  Tup([t \in 1..T |->
            VMul(VScale(Rat(-2, T),
                        MatVec(Transpose(g.Pv), VSub(gv, g.gv_mean))),
                 VSub(yy[t], y_mean))], T)

\* ------------------------------------------- convert_with_gv (270-304)
\* lines 298-299
grad_y(Wm, P, E, yy) ==
    VAdd(VNeg(MatVec(Transpose(Wm), MatVec(P, MatVec(Wm, Flatten(yy))))),
         MatVec(Transpose(Wm), MatVec(P, E)))

\* a faulty update (the learning rate ignored), against which C8 is tested
GvUpdateNoRate(Wm, P, E, g, yy, lr) ==
    LET T     == Len(yy)
        D     == Len(yy[1])
        omega == RDiv(R1, RMul(RInt(2), RInt(T)))
        grad  == VAdd(VScale(omega, grad_y(Wm, P, E, yy)), Flatten(gv_grad(g, yy)))
        step  == Reshape(grad, T, D)
    IN  Tup([t \in 1..T |-> VAdd(yy[t], step[t])], T)

\* lines 300 and 302: one pass of the loop body
GvUpdate(Wm, P, E, g, yy, lr) ==
    LET T     == Len(yy)
        D     == Len(yy[1])
        omega == RDiv(R1, RMul(RInt(2), RInt(T)))
        grad  == VAdd(VScale(omega, grad_y(Wm, P, E, yy)), Flatten(gv_grad(g, yy)))
        step  == Reshape(grad, T, D)
    IN  Tup([t \in 1..T |-> VAdd(yy[t], VScale(lr, step[t]))], T)

\* a faulty loop bound (one pass short), against which C10 is tested
LoopGuardShort(k, epoches) == k < epoches - 1

\* line 296: for i in range(epoches)
LoopGuard(k, epoches) == k < epoches

\* what a caller passes to convert_with_gv.  The exact value of a second
\* update with a non-zero rate, or of an update on a longer sequence, has a
\* numerator beyond 32 bits.
GvLens == {1, 2, 3}
GvInputs == UNION { [1..n -> Frames] : n \in GvLens }
GvArgs ==
    { << e, R0 >> : e \in 0..MaxEpochs } \cup { << e, Rat(1, 2) >> : e \in {0, 1} }

\* a caller's convert_with_gv(src, epoches, learning_rate) up to the loop.
\* Line 290: y = self.convert(src), r being what that call does in the
\* current state; an exception of convert ends the call
GvStart(src, r) ==
    /\ phase = "ready" /\ pc = "idle"
    /\ src \in GvInputs
    /\ W' = r.W
    /\ selfE' = r.E
    /\ selfD' = r.D
    /\ \E a \in GvArgs :
          IF r.out = "ok"
          THEN /\ pc' = "gv_loop"
               /\ y' = r.ret
               /\ i' = 0
               /\ call' = [op |-> "gv", X |-> src, epoches |-> a[1],
                           lr |-> a[2], out |-> "running", ret |-> << >>,
                           y0 |-> r.ret, wshape |-> r.wshape, n |-> 0]
          ELSE /\ call' = [op |-> "gv", X |-> src, epoches |-> a[1],
                           lr |-> a[2], out |-> r.out, ret |-> << >>,
                           y0 |-> << >>, wshape |-> r.wshape, n |-> 0]
               /\ pc' = "returned"
               /\ UNCHANGED << y, i >>
    /\ UNCHANGED << phase, split, selfT, gvm, thrVars >>

\* lines 296-302: one iteration; __gv_grad reads self.Pv at line 328, which
\* exists only if gv was given (AttributeError otherwise)
GvStep ==
    /\ pc = "gv_loop"
    /\ LoopGuard(i, call.epoches)
    /\ IF gvm.has
       THEN /\ y' = GvUpdate(W.m, selfD.m, selfE, gvm, y, call.lr)
            /\ i' = i + 1
            /\ UNCHANGED << pc, call >>
       ELSE /\ call' = [call EXCEPT !.out = "AttributeError"]
            /\ pc' = "returned"
            /\ UNCHANGED << y, i >>
    /\ UNCHANGED << objVars, W, thrVars >>

\* line 304
GvReturn ==
    /\ pc = "gv_loop"
    /\ ~LoopGuard(i, call.epoches)
    /\ call' = [call EXCEPT !.out = "ok", !.ret = y, !.n = i]
    /\ pc' = "returned"
    /\ UNCHANGED << objVars, W, y, i, thrVars >>

\* the caller has the returned value, or has caught the exception: the
\* locals of the finished call are gone and the instance can be called again
Resume ==
    /\ pc = "returned"
    /\ pc' = "idle"
    /\ call' = [op |-> "none"]
    /\ y' = << >>
    /\ i' = 0
    /\ UNCHANGED << objVars, W, thrVars >>

\* ------------------------------------------ one instance, one caller
Next ==
    \/ \E T \in 1..MaxT, gv \in {NoneGv, gvModel}, swap \in BOOLEAN :
          Construct(T, gv, swap)
    \/ \E src \in Inputs :
          LET r == convert(selfT, W, split, src)
          IN  Convert(src, r) \/ GvStart(src, r)
    \/ GvStep
    \/ GvReturn
    \/ Resume

Spec == Init /\ [][Next]_vars


\* the control of lines 296-304: a pass of the loop or the return.  A step of
\* Next is a LoopAdvance step exactly if it is a GvStep or a GvReturn step.
LoopAdvance ==
    /\ pc = "gv_loop"
    /\ \/ i' = i + 1 /\ pc' = pc
       \/ i' = i /\ pc' = "returned"

\* the caller's thread runs: a call in the loop eventually makes its next
\* step
FairSpec == Spec /\ WF_<< i, pc >>(LoopAdvance)

\* ============================================================ claims on Spec

\* C1: in every call of convert (also the one convert_with_gv makes), the
\* operator W used in the solve has shape (2*D*T, D*T) for the call's own
\* length T, because a call whose T differs from the cached operator's
\* length rebuilds it.
C1_OperatorMatchesCall ==
    (pc = "returned" /\ call.op \in {"convert", "gv"})
        => call.wshape = << 2 * DOrder * Len(call.X), DOrder * Len(call.X) >>

\* C3: construction with swap = true succeeds, and the split parameters are
\* those of the unswapped split with source and target exchanged.
C3_SwapSucceeds ==
    (call.op = "init" /\ call.swap)
        => /\ phase = "ready"
           /\ LET sp == SplitParams(gmm, 2 * DOrder)
              IN  /\ split.src_means = sp.tgt_means
                  /\ split.tgt_means = sp.src_means
                  /\ split.covarXX = sp.covarYY
                  /\ split.covarYY = sp.covarXX
                  /\ split.covarXY = sp.covarYX
                  /\ split.covarYX = sp.covarXY

\* C4: on an instance constructed with gv = None, every finished call of
\* convert_with_gv has failed and returned no trajectory, whatever epochs is.
C4_MissingGvFails ==
    (pc = "returned" /\ call.op = "gv" /\ ~gvm.has)
        => (call.out # "ok" /\ call.ret = << >>)

\* C5: a finished convert(X) has the outcome that convert(X) has on the
\* instance as constructed, whatever calls were made before it.
C5_ConvertDeterministic ==
    (pc = "returned" /\ call.op = "convert")
        => LET fresh == convert(selfT, construct_weight_matrix(NoW, selfT, DOrder),
                                split, call.X)
           IN  call.out = fresh.out /\ call.ret = fresh.ret

\* C6: on a constructed instance the split parameters, and self.D holding
\* one residual covariance per component, are the ones of the construction,
\* whatever calls were made.
C6_SplitUnchanged ==
    phase = "ready"
        => /\ split = SplitParams(gmm, 2 * DOrder)
           /\ selfD.fmt = "ndarray"
           /\ Len(selfD.v) = Len(gmm.means_)
           /\ \A m \in 1..Len(gmm.means_) : selfD.v[m] = ResidualCov(split, m)

\* C7: the trajectory a call of convert returns satisfies
\* (W^T P W) y = W^T P E, with W the operator of the call's length in the
\* closed form of C2, P_t the inverse residual covariance and E_t the
\* conditional mean of a component of maximal posterior for frame t.
C7_NormalEquations ==
    (pc = "returned" /\ call.op = "convert" /\ call.out = "ok")
        => LET X  == call.X
               T  == Len(X)
               D  == DOrder
               K  == Len(gmm.means_)
               Wr == Tup([r \in 1..(2 * D * T) |->
                         Tup([c \in 1..(D * T) |-> WEntry(r - 1, c - 1, T, D)],
                             D * T)], 2 * D * T)
               k  == Predict(split, X)
               Et == Tup([t \in 1..T |->
                         VAdd(split.tgt_means[k[t]],
                              MatVec(MatMul(split.covarYX[k[t]],
                                            Inv(split.covarXX[k[t]])),
                                     VSub(X[t], split.src_means[k[t]])))], T)
               Pt == Tup([t \in 1..T |-> Inv(ResidualCov(split, k[t]))], T)
               P  == BlockDiag(Pt, 2 * D)
               yv == Flatten(call.ret)
           IN  /\ \A t \in 1..T : \A j \in 1..K :
                     ~RLess(PxScore(split, k[t], X[t]), PxScore(split, j, X[t]))
               /\ Len(call.ret) = T
               /\ MatVec(MatMul(Transpose(Wr), MatMul(P, Wr)), yv)
                     = MatVec(Transpose(Wr), MatVec(P, Flatten(Et)))

\* the small case of C7: T = 3, D = 1, every frame assigned component 1,
\* whose residual covariance is the identity
C7_Witness ==
    /\ pc = "returned" /\ call.op = "convert" /\ call.out = "ok"
    /\ call.X = << RVec(<< 1, 0 >>), RVec(<< 1, 0 >>), RVec(<< 1, 0 >>) >>
    /\ Predict(split, call.X) = << 1, 1, 1 >>
    /\ ResidualCov(split, 1) = RMat(<< << 1, 0 >>, << 0, 1 >> >>)
    /\ Len(call.ret) = 3

\* C8: with a global-variance model, convert_with_gv(X, epochs, 0) with
\* epochs > 0 ends as convert(X) ends: it returns the trajectory convert(X)
\* returns (the one it started from, which no update has changed).
C8_ZeroRateIsConvert ==
    /\ (pc = "gv_loop" /\ gvm.has /\ call.lr = R0) => y = call.y0
    /\ (pc = "returned" /\ call.op = "gv" /\ gvm.has /\ call.lr = R0
          /\ call.epoches > 0)
          => LET c == convert(selfT, W, split, call.X)
             IN  /\ call.out = c.out
                 /\ call.ret = c.ret
                 /\ call.out = "ok" => call.ret = call.y0

C8_Witness ==
    /\ pc = "returned" /\ call.op = "gv" /\ gvm.has /\ call.lr = R0
    /\ call.epoches = MaxEpochs /\ call.n = MaxEpochs
    /\ call.out = "ok" /\ Len(call.ret) = 3
    /\ call.X[1] # call.X[2]

RECURSIVE C10_Iterate(_)
\* the k-th iterate of y <- y + lr * (omega * g_L(y) + g_V(y)) from y0, with
\* g_L(y) = W^T P (E - W y) on the fields of the instance and omega = 1/(2T)
C10_Iterate(k) ==
    IF k = 0 THEN call.y0
    ELSE LET yp    == C10_Iterate(k - 1)
             T     == Len(call.X)
             omega == Rat(1, 2 * T)
             g_L   == MatVec(Transpose(W.m),
                             MatVec(selfD.m,
                                    VSub(selfE, MatVec(W.m, Flatten(yp)))))
             g_V   == Flatten(gv_grad(gvm, yp))
             d     == Reshape(VScale(call.lr, VAdd(VScale(omega, g_L), g_V)),
                              T, DOrder)
         IN  Tup([t \in 1..T |-> VAdd(yp[t], d[t])], T)

C10_Safety ==
    (call.op = "gv" /\ gvm.has /\ call.out \in {"running", "ok"})
        => LET c == convert(selfT, W, split, call.X)
           IN  /\ call.y0 = c.ret
               /\ selfE = c.E /\ selfD = c.D /\ W = c.W
               /\ pc = "gv_loop" => (i <= call.epoches /\ y = C10_Iterate(i))
               /\ pc = "returned"
                     => (call.n = call.epoches
                         /\ call.ret = C10_Iterate(call.epoches))

ConcInputs == { [k \in 1..n |-> RVec(<< 1, 0 >>)] : n \in 1..MaxT }

\* lines 236-239
CallConvert(th, src) ==
    /\ tpc[th] \in {"idle", "done", "ValueError", "AssertionError"}
    /\ tT' = [tT EXCEPT ![th] = Len(src)]
    /\ tD' = [tD EXCEPT ![th] = Len(src[1]) \div 2]
    /\ tt' = [tt EXCEPT ![th] = 0]
    /\ tpc' = [tpc EXCEPT ![th] = IF Len(src) # selfT THEN "loop" ELSE "built"]
    /\ tSeen' = [tSeen EXCEPT ![th] = NoW]
    /\ UNCHANGED << W, objVars, seqVars >>

\* lines 241-251; the caller's sequence is the one of ConcInputs of length tT
ComputeE(th) ==
    /\ tpc[th] = "built"
    /\ LET src == [k \in 1..tT[th] |-> RVec(<< 1, 0 >>)]
       IN  selfE' = LocalEstimate(split, src, Predict(split, src))
    /\ tpc' = [tpc EXCEPT ![th] = "E"]
    /\ UNCHANGED << W, phase, split, selfT, selfD, gvm, seqVars, tT, tD, tt, tSeen >>

\* lines 254-261
ComputeD(th) ==
    /\ tpc[th] = "E"
    /\ LET src == [k \in 1..tT[th] |-> RVec(<< 1, 0 >>)]
       IN  selfD' = LocalPrecision(split, Predict(split, src), tD[th])
    /\ tpc' = [tpc EXCEPT ![th] = "D"]
    /\ UNCHANGED << W, phase, split, selfT, selfE, gvm, seqVars, tT, tD, tt, tSeen >>

\* lines 265-268
SolveStep(th) ==
    /\ tpc[th] = "D"
    /\ tSeen' = [tSeen EXCEPT ![th] = W]
    /\ tpc' = [tpc EXCEPT ![th] =
                  IF Solve265(W, selfD, selfE, tT[th], tD[th]).out = "ok"
                  THEN "done" ELSE "ValueError"]
    /\ UNCHANGED << W, objVars, seqVars, tT, tD, tt >>

InitConc ==
    /\ \E T \in 1..MaxT :
          /\ selfT = T
          /\ W = construct_weight_matrix(NoW, T, DOrder)
    /\ phase = "ready"
    /\ split = GMMMap_init(gmm, FALSE).split
    /\ selfD = GMMMap_init(gmm, FALSE).D
    /\ selfE = << >>
    /\ gvm = [has |-> FALSE]
    /\ InitSeq
    /\ InitThreads

NextConc ==
    \E th \in Threads :
        \/ \E src \in ConcInputs : CallConvert(th, src)
        \/ BuildIter(th) /\ UNCHANGED << objVars, seqVars >>
        \/ BuildFinish(th) /\ UNCHANGED << objVars, seqVars >>
        \/ ComputeE(th)
        \/ ComputeD(th)
        \/ SolveStep(th)

SpecConc == InitConc /\ [][NextConc]_vars

\* ======================================================= claim on SpecConc

\* C9: the operator a caller of convert reads from self.W for its solve is
\* a complete operator for some length (csr, 2*D*T rows, D*T columns, the
\* entries of C2), also while another caller rebuilds it.
C9_NoPartialOperator ==
    \A th \in Threads :
        tSeen[th] # NoW
            => /\ tSeen[th].fmt = "csr"
               /\ \E T \in 1..MaxT :
                     /\ NRows(tSeen[th].m) = 2 * DOrder * T
                     /\ NCols(tSeen[th].m) = DOrder * T
                     /\ \A r \in 1..(2 * DOrder * T) : \A c \in 1..(DOrder * T) :
                           tSeen[th].m[r][c] = WEntry(r - 1, c - 1, T, DOrder)

=============================================================================
